---------------------------- MODULE Spec2Model ----------------------------
(***************************************************************************)
(* A model of numpy/core/src/multiarray/datetime_strings.c:                *)
(*   parse_iso_8601_datetime       the ISO 8601 string parser              *)
(*   get_datetime_iso_8601_strlen  the length calculator                   *)
(*   make_iso_8601_datetime        the formatter                           *)
(*                                                                         *)
(* Strings are sequences of byte codes (ASCII).  A broken-down time is a   *)
(* record [year, month, day, hour, min, sec, us, ps, as]; the 64-bit year  *)
(* is kept in sign/magnitude decimal form so that the whole npy_int64      *)
(* range is representable: [neg |-> BOOLEAN, mag |-> <<d1, ..., dn>>].     *)
(***************************************************************************)
EXTENDS Integers, Sequences, FiniteSets, TLC

VARIABLES
    host,       \* the machine: [tz, charSigned, now]
    pc,         \* which call of the scenario comes next
    str,        \* parser input: the bytes of 'str' (len = Len(str))
    unit,       \* parser input: requested unit, -1 = unknown
    casting,    \* parser input: casting rule
    pres,       \* outcome of parse_iso_8601_datetime(str, ...)
    freq,       \* formatter input: [dts, outlen, fill, local, base, tzoffset]
    fres,       \* outcome of make_iso_8601_datetime on freq
    pres2       \* outcome of parsing the formatter's output again

vars == <<host, pc, str, unit, casting, pres, freq, fres, pres2>>

-----------------------------------------------------------------------------
(* Characters                                                              *)

NUL       == 0
ChTab     == 9
ChSpace   == 32
ChPlus    == 43
ChMinus   == 45
ChDot     == 46
Ch0       == 48
ChColon   == 58
ChN       == 78
ChT       == 84
ChZ       == 90
Cha       == 97

isdigit(c) == c >= Ch0 /\ c <= Ch0 + 9
isspace(c) == c = ChSpace \/ (c >= ChTab /\ c <= ChTab + 4)
tolower(c) == IF c >= 65 /\ c <= 90 THEN c + 32 ELSE c

\* The text of a C string literal of lower-case letters, for comparisons.
Lower(s) == [i \in 1..Len(s) |-> tolower(s[i])]

-----------------------------------------------------------------------------
(* NPY_DATETIMEUNIT, ordered from coarsest to finest                       *)

NPY_FR_GENERIC == 0
NPY_FR_Y  == 1
NPY_FR_M  == 2
NPY_FR_W  == 3
NPY_FR_D  == 4
NPY_FR_h  == 5
NPY_FR_m  == 6
NPY_FR_s  == 7
NPY_FR_ms == 8
NPY_FR_us == 9
NPY_FR_ns == 10
NPY_FR_ps == 11
NPY_FR_fs == 12
NPY_FR_as == 13

NPY_DATETIME_MAX_ISO8601_STRLEN == 62

-----------------------------------------------------------------------------
(* npy_int64 years in sign/magnitude decimal form                          *)

Int64MaxMag == <<9,2,2,3,3,7,2,0,3,6,8,5,4,7,7,5,8,0,7>>
Int64MinMag == <<9,2,2,3,3,7,2,0,3,6,8,5,4,7,7,5,8,0,8>>
Int64Max    == [neg |-> FALSE, mag |-> Int64MaxMag]
Int64Min    == [neg |-> TRUE,  mag |-> Int64MinMag]

NPY_DATETIME_NAT == Int64Min

YZero == [neg |-> FALSE, mag |-> <<0>>]

RECURSIVE MagVal(_)
MagVal(m) == IF m = <<>> THEN 0
             ELSE 10 * MagVal(SubSeq(m, 1, Len(m) - 1)) + m[Len(m)]

RECURSIVE NatMag(_)
NatMag(n) == IF n < 10 THEN <<n>> ELSE Append(NatMag(n \div 10), n % 10)

\* Years of at most 9 digits convert to and from the model checker's integers.
YSmall(y)   == Len(y.mag) <= 9
YToInt(y)   == IF y.neg THEN 0 - MagVal(y.mag) ELSE MagVal(y.mag)
YFromInt(n) == IF n < 0 THEN [neg |-> TRUE, mag |-> NatMag(0 - n)]
               ELSE [neg |-> FALSE, mag |-> NatMag(n)]

\* year < n and year > n for a small constant n
YLess(y, n)    == IF YSmall(y) THEN YToInt(y) < n ELSE y.neg
YGreater(y, n) == IF YSmall(y) THEN YToInt(y) > n ELSE ~y.neg

\* 10 * year + d for a non-negative year (the parser's accumulation)
YMul10Add(y, d) == IF y.mag = <<0>> THEN [neg |-> FALSE, mag |-> <<d>>]
                   ELSE [y EXCEPT !.mag = Append(@, d)]

\* -year
YNegate(y) == IF y.mag = <<0>> THEN y ELSE [y EXCEPT !.neg = ~@]

RECURSIVE MagInc(_)
MagInc(m) == IF m = <<>> THEN <<1>>
             ELSE IF m[Len(m)] < 9 THEN [m EXCEPT ![Len(m)] = @ + 1]
             ELSE Append(MagInc(SubSeq(m, 1, Len(m) - 1)), 0)

RECURSIVE MagDec(_)
MagDec(m) == IF m[Len(m)] > 0 THEN [m EXCEPT ![Len(m)] = @ - 1]
             ELSE LET r == MagDec(SubSeq(m, 1, Len(m) - 1))
                  IN  IF r = <<0>> THEN <<9>> ELSE Append(r, 9)

\* year + 1 and year - 1 in 64 bits (two's complement wrap-around)
YInc(y) == IF y = Int64Max THEN Int64Min
           ELSE IF y.neg THEN (IF y.mag = <<1>> THEN YZero
                               ELSE [y EXCEPT !.mag = MagDec(@)])
           ELSE [y EXCEPT !.mag = MagInc(@)]
YDec(y) == IF y = Int64Min THEN Int64Max
           ELSE IF y.neg THEN [y EXCEPT !.mag = MagInc(@)]
           ELSE IF y.mag = <<0>> THEN [neg |-> TRUE, mag |-> <<1>>]
           ELSE [y EXCEPT !.mag = MagDec(@)]

-----------------------------------------------------------------------------
(* The calendar library and the casting table (datetime.c)                 *)

\* (year & 0x3) == 0 && ((year % 100) != 0 || (year % 400) == 0); the
\* answer depends on the last four decimal digits of |year| only.
is_leapyear(y) ==
    LET n == Len(y.mag)
        v == MagVal(SubSeq(y.mag, IF n > 4 THEN n - 3 ELSE 1, n))
    IN  v % 4 = 0 /\ (v % 100 # 0 \/ v % 400 = 0)

days_per_month_table(leap, month) ==
    IF month = 2 THEN (IF leap THEN 29 ELSE 28)
    ELSE IF month \in {4, 6, 9, 11} THEN 30 ELSE 31

\* Adds 'minutes' (less than a month's worth) to a datetimestruct.
add_minutes_to_datetimestruct(dts, minutes) ==
    LET tm   == dts.min + minutes
        th   == dts.hour + (tm \div 60)
        td   == dts.day + (th \div 24)
        d1   == [dts EXCEPT !.min = tm % 60, !.hour = th % 24, !.day = td]
        pm   == IF d1.month = 1 THEN 12 ELSE d1.month - 1
        py   == IF d1.month = 1 THEN YDec(d1.year) ELSE d1.year
        dim  == days_per_month_table(is_leapyear(d1.year), d1.month)
    IN  IF td < 1
        THEN [d1 EXCEPT !.year = py, !.month = pm,
                        !.day = td + days_per_month_table(is_leapyear(py), pm)]
        ELSE IF td > dim
        THEN [d1 EXCEPT !.day = td - dim,
                        !.month = IF d1.month = 12 THEN 1 ELSE d1.month + 1,
                        !.year = IF d1.month = 12 THEN YInc(d1.year) ELSE d1.year]
        ELSE d1

\* Leap days in the years 1..n of the proleptic Gregorian calendar.
LeapsThrough(n) == (n \div 4) - (n \div 100) + (n \div 400)

RECURSIVE DaysBeforeMonth(_, _)
DaysBeforeMonth(leap, month) ==
    IF month = 1 THEN 0
    ELSE DaysBeforeMonth(leap, month - 1) + days_per_month_table(leap, month - 1)

\* Days since 1970-01-01, for a year that fits the checker's integers.
get_datetimestruct_days(dts) ==
    LET y == YToInt(dts.year)
    IN  365 * (y - 1970) + LeapsThrough(y - 1) - LeapsThrough(1969)
        + DaysBeforeMonth(is_leapyear(dts.year), dts.month) + (dts.day - 1)

\* The casting table: may a value of unit src be cast to unit dst?
can_cast_datetime64_units(src, dst, rule) ==
    IF rule = "unsafe" THEN TRUE
    ELSE IF src = NPY_FR_GENERIC \/ dst = NPY_FR_GENERIC THEN src = dst
    ELSE IF rule = "same_kind" THEN TRUE
    ELSE IF rule = "safe" THEN src <= dst
    ELSE src = dst

-----------------------------------------------------------------------------
(* The host: the C library's local time zone and clock.  The zone is a     *)
(* fixed offset of host.tz minutes east of UTC.                            *)

\* mktime followed by gmtime: local wall-clock fields to UTC fields.
\* mktime's result -1 (one second before the epoch) is read as a failure.
HostLocalToUTC(h, dts) ==
    LET u == add_minutes_to_datetimestruct(dts, 0 - h.tz)
    IN  [ok  |-> ~(u.year = YFromInt(1969) /\ u.month = 12 /\ u.day = 31
                   /\ u.hour = 23 /\ u.min = 59 /\ u.sec = 59),
         dts |-> u]

\* localtime: UTC fields (to the minute) to local wall-clock fields.
HostUTCToLocal(h, dts) == add_minutes_to_datetimestruct(dts, h.tz)

-----------------------------------------------------------------------------
(* 'char' counters                                                         *)

\* The value an int takes when stored in a char of the host's signedness.
ToChar(h, v) == IF h.charSigned THEN ((v + 128) % 256) - 128 ELSE v % 256

ZeroDts == [year |-> YZero, month |-> 0, day |-> 0, hour |-> 0, min |-> 0,
            sec |-> 0, us |-> 0, ps |-> 0, as |-> 0]

-----------------------------------------------------------------------------
(* parse_iso_8601_datetime                                                 *)
(*                                                                         *)
(* S  = [str, len, unit, casting, h]: the arguments and the host.          *)
(* st = [pos, sublen, out, local, bestunit, scan, gate, clock]: substr -   *)
(*      str, the char counter sublen, *out, *out_local (-1: never          *)
(*      assigned), the local bestunit (-2: never assigned), and what the   *)
(*      call has done so far: scan = 1 once substr = str has been set,     *)
(*      gate = the number of times the casting rule was checked, clock =   *)
(*      the number of calls of the C library's time functions.             *)
(* The stages below are the function's code read from its labels upward;   *)
(* each ends in the stage the C code continues with.                       *)

\* *substr, substr[1]: the string is NUL-terminated at str[len].
At(S, pos) == IF pos < Len(S.str) THEN S.str[pos + 1] ELSE NUL

\* substr += n; sublen -= n;
Advance(S, st, n) == [st EXCEPT !.pos = @ + n, !.sublen = ToChar(S.h, @ - n)]

\* sublen >= 2 && isdigit(substr[0]) && isdigit(substr[1])
TwoDigits(S, st) == st.sublen >= 2 /\ isdigit(At(S, st.pos))
                    /\ isdigit(At(S, st.pos + 1))

\* 10 * (substr[0] - '0') + (substr[1] - '0')
TwoDigitValue(S, st) == 10 * (At(S, st.pos) - Ch0) + (At(S, st.pos + 1) - Ch0)

PResult(ret, err, st, bestunit, special) ==
    [ret |-> ret, err |-> err, errpos |-> st.pos, out |-> st.out,
     local |-> st.local, bestunit |-> bestunit, special |-> special,
     scan |-> st.scan, gate |-> st.gate, clock |-> st.clock]

\* parse_error: and error:
ParseError(S, st) == PResult(-1, "MalformedInput", st, -2, 0)
RangeError(S, st) == PResult(-1, "FieldOutOfRange", st, -2, 0)
ClockError(S, st) == PResult(-1, "ClockServiceFailure", st, -2, 0)

\* Finish without the test for an unknown (-1) unit.
Finish_NoUnspecified(S, st, special) ==
    LET st1 == [st EXCEPT !.gate = @ + 1]
    IN  IF ~can_cast_datetime64_units(st.bestunit, S.unit, S.casting)
        THEN PResult(-1, "DisallowedUnitCast", st1, st.bestunit, special)
        ELSE PResult(0, "", st1, st.bestunit, special)

\* finish: store the best unit, then check the casting rule.
Finish(S, st, special) ==
    LET st1 == [st EXCEPT !.gate = @ + 1]
    IN  IF S.unit # -1
           /\ ~can_cast_datetime64_units(st.bestunit, S.unit, S.casting)
        THEN PResult(-1, "DisallowedUnitCast", st1, st.bestunit, special)
        ELSE PResult(0, "", st1, st.bestunit, special)

\* while (sublen > 0 && isspace(*substr)) { ++substr; --sublen; }
RECURSIVE SkipSpace(_, _)
SkipSpace(S, st) ==
    IF st.sublen > 0 /\ isspace(At(S, st.pos))
    THEN SkipSpace(S, Advance(S, st, 1)) ELSE st

\* Skip trailing whitespace; anything left is a parse error.
TrailingSpace(S, st) ==
    LET st1 == SkipSpace(S, st)
    IN  IF st1.sublen # 0 THEN ParseError(S, st1) ELSE Finish(S, st1, 0)

\* ApplyOffset with the offset added where the code subtracts it.
ApplyOffset_Added(S, st, neg, hour, minute) ==
    LET offset_hour   == IF neg THEN 0 - hour ELSE hour
        offset_minute == IF neg THEN 0 - minute ELSE minute
    IN  TrailingSpace(S, [st EXCEPT !.out =
            add_minutes_to_datetimestruct(@, 60 * offset_hour + offset_minute)])

\* Apply the time zone offset.
ApplyOffset(S, st, neg, hour, minute) ==
    LET offset_hour   == IF neg THEN 0 - hour ELSE hour
        offset_minute == IF neg THEN 0 - minute ELSE minute
    IN  TrailingSpace(S, [st EXCEPT !.out =
            add_minutes_to_datetimestruct(@, -60 * offset_hour - offset_minute)])

\* The minutes offset is optional.
OffsetMinutes(S, st, neg, hour) ==
    IF st.sublen > 0
    THEN LET st1 == IF At(S, st.pos) = ChColon THEN Advance(S, st, 1) ELSE st
         IN  IF TwoDigits(S, st1)
             THEN IF TwoDigitValue(S, st1) >= 60
                  THEN RangeError(S, Advance(S, st1, 2))
                  ELSE ApplyOffset(S, Advance(S, st1, 2), neg, hour,
                                   TwoDigitValue(S, st1))
             ELSE ParseError(S, st1)
    ELSE ApplyOffset(S, st, neg, hour, 0)

\* Time zone offset: sign, then the hours offset.
TimezoneOffset(S, st) ==
    LET neg == At(S, st.pos) = ChMinus
        st1 == Advance(S, [st EXCEPT !.local = 0], 1)
    IN  IF TwoDigits(S, st1)
        THEN IF TwoDigitValue(S, st1) >= 24
             THEN RangeError(S, Advance(S, st1, 2))
             ELSE OffsetMinutes(S, Advance(S, st1, 2), neg, TwoDigitValue(S, st1))
        ELSE ParseError(S, st1)

\* No "Z" and no offset: local time, converted for recent and future years.
LocalTimezone(S, st) ==
    IF YGreater(st.out.year, 1900) /\ YLess(st.out.year, 10000)
    THEN LET r == HostLocalToUTC(S.h, st.out)
         IN  IF r.ok THEN Finish(S, [st EXCEPT !.out = r.dts, !.local = 1,
                                               !.clock = @ + 2], 0)
             ELSE ClockError(S, [st EXCEPT !.clock = @ + 1])
    ELSE Finish(S, [st EXCEPT !.local = 1], 0)

\* parse_timezone:
ParseTimezone(S, st) ==
    IF st.sublen = 0 THEN LocalTimezone(S, st)
    ELSE IF At(S, st.pos) = ChZ
    THEN IF st.sublen = 1 THEN Finish(S, [st EXCEPT !.local = 0], 0)
         ELSE TrailingSpace(S, Advance(S, [st EXCEPT !.local = 0], 1))
    ELSE IF At(S, st.pos) = ChMinus \/ At(S, st.pos) = ChPlus
    THEN TimezoneOffset(S, st)
    ELSE TrailingSpace(S, st)

\* for (i = 0; i < 6; ++i) { field *= 10; if (digit) { field += digit; ... } }
\* r = [st, value, numdigits]
RECURSIVE SixDigits(_, _, _)
SixDigits(S, r, i) ==
    IF i = 6 THEN r
    ELSE IF r.st.sublen > 0 /\ isdigit(At(S, r.st.pos))
    THEN SixDigits(S, [st |-> Advance(S, r.st, 1),
                       value |-> 10 * r.value + (At(S, r.st.pos) - Ch0),
                       numdigits |-> r.numdigits + 1], i + 1)
    ELSE SixDigits(S, [r EXCEPT !.value = 10 * @], i + 1)

\* PARSE THE ATTOSECONDS (0 to 6 digits)
ParseAttoseconds(S, st) ==
    LET r == SixDigits(S, [st |-> st, value |-> st.out.as, numdigits |-> 0], 0)
    IN  ParseTimezone(S, [r.st EXCEPT !.out.as = r.value,
            !.bestunit = IF r.numdigits > 3 THEN NPY_FR_as ELSE NPY_FR_fs])

\* PARSE THE PICOSECONDS (0 to 6 digits)
ParsePicoseconds(S, st) ==
    LET r   == SixDigits(S, [st |-> st, value |-> st.out.ps, numdigits |-> 0], 0)
        st1 == [r.st EXCEPT !.out.ps = r.value]
    IN  IF st1.sublen = 0 \/ ~isdigit(At(S, st1.pos))
        THEN ParseTimezone(S, [st1 EXCEPT
                !.bestunit = IF r.numdigits > 3 THEN NPY_FR_ps ELSE NPY_FR_ns])
        ELSE ParseAttoseconds(S, st1)

\* ParseMicroseconds with the digit-count test off by one (>= 3 for > 3).
ParseMicroseconds_OffByOne(S, st) ==
    LET r   == SixDigits(S, [st |-> st, value |-> st.out.us, numdigits |-> 0], 0)
        st1 == [r.st EXCEPT !.out.us = r.value]
    IN  IF st1.sublen = 0 \/ ~isdigit(At(S, st1.pos))
        THEN ParseTimezone(S, [st1 EXCEPT
                !.bestunit = IF r.numdigits >= 3 THEN NPY_FR_us ELSE NPY_FR_ms])
        ELSE ParsePicoseconds(S, st1)

\* PARSE THE MICROSECONDS (0 to 6 digits)
ParseMicroseconds(S, st) ==
    LET r   == SixDigits(S, [st |-> st, value |-> st.out.us, numdigits |-> 0], 0)
        st1 == [r.st EXCEPT !.out.us = r.value]
    IN  IF st1.sublen = 0 \/ ~isdigit(At(S, st1.pos))
        THEN ParseTimezone(S, [st1 EXCEPT
                !.bestunit = IF r.numdigits > 3 THEN NPY_FR_us ELSE NPY_FR_ms])
        ELSE ParsePicoseconds(S, st1)

\* PARSE THE SECONDS (2 digits), then an optional '.'
ParseSeconds(S, st) ==
    IF TwoDigits(S, st)
    THEN LET sec == TwoDigitValue(S, st)
             st1 == Advance(S, [st EXCEPT !.out.sec = sec], 2)
         IN  IF sec < 0 \/ sec >= 60 THEN RangeError(S, [st EXCEPT !.out.sec = sec])
             ELSE IF st1.sublen > 0 /\ At(S, st1.pos) = ChDot
             THEN ParseMicroseconds(S, Advance(S, st1, 1))
             ELSE ParseTimezone(S, [st1 EXCEPT !.bestunit = NPY_FR_s])
    ELSE ParseError(S, st)

\* PARSE THE MINUTES (2 digits), then ':' or the time zone
ParseMinutes(S, st) ==
    IF TwoDigits(S, st)
    THEN LET min == TwoDigitValue(S, st)
             st1 == Advance(S, [st EXCEPT !.out.min = min], 2)
         IN  IF st.out.hour < 0 \/ min >= 60
             THEN RangeError(S, [st EXCEPT !.out.min = min])
             ELSE IF st1.sublen > 0 /\ At(S, st1.pos) = ChColon
             THEN (IF Advance(S, st1, 1).sublen = 0
                   THEN ParseError(S, Advance(S, st1, 1))
                   ELSE ParseSeconds(S, Advance(S, st1, 1)))
             ELSE ParseTimezone(S, [st1 EXCEPT !.bestunit = NPY_FR_m])
    ELSE ParseError(S, st)

\* PARSE THE HOURS (2 digits), then ':' or the time zone
ParseHours(S, st) ==
    IF TwoDigits(S, st)
    THEN LET hour == TwoDigitValue(S, st)
             st1  == Advance(S, [st EXCEPT !.out.hour = hour], 2)
         IN  IF hour < 0 \/ hour >= 24
             THEN RangeError(S, [st EXCEPT !.out.hour = hour])
             ELSE IF st1.sublen > 0 /\ At(S, st1.pos) = ChColon
             THEN (IF Advance(S, st1, 1).sublen = 0
                   THEN ParseError(S, Advance(S, st1, 1))
                   ELSE ParseMinutes(S, Advance(S, st1, 1)))
             ELSE ParseTimezone(S, [st1 EXCEPT !.bestunit = NPY_FR_h])
    ELSE ParseError(S, st)

\* Date finished at unit u: out_local = 0, goto finish.
DateOnly(S, st, u) == Finish(S, [st EXCEPT !.local = 0, !.bestunit = u], 0)

\* ParseDay with every month taken to have 31 days.
ParseDay_AnyMonth(S, st, year_leap) ==
    IF TwoDigits(S, st)
    THEN LET day == TwoDigitValue(S, st)
             st1 == Advance(S, [st EXCEPT !.out.day = day], 2)
         IN  IF day < 1 \/ day > 31
             THEN RangeError(S, [st EXCEPT !.out.day = day])
             ELSE IF st1.sublen = 0 THEN DateOnly(S, st1, NPY_FR_D)
             ELSE IF At(S, st1.pos) # ChT /\ At(S, st1.pos) # ChSpace
             THEN ParseError(S, st1)
             ELSE ParseHours(S, Advance(S, st1, 1))
    ELSE ParseError(S, st)

\* PARSE THE DAY (2 digits), then 'T', ' ' or the end of the string
ParseDay(S, st, year_leap) ==
    IF TwoDigits(S, st)
    THEN LET day == TwoDigitValue(S, st)
             st1 == Advance(S, [st EXCEPT !.out.day = day], 2)
         IN  IF day < 1 \/ day > days_per_month_table(year_leap, st.out.month)
             THEN RangeError(S, [st EXCEPT !.out.day = day])
             ELSE IF st1.sublen = 0 THEN DateOnly(S, st1, NPY_FR_D)
             ELSE IF At(S, st1.pos) # ChT /\ At(S, st1.pos) # ChSpace
             THEN ParseError(S, st1)
             ELSE ParseHours(S, Advance(S, st1, 1))
    ELSE ParseError(S, st)

\* PARSE THE MONTH (2 digits), then '-' or the end of the string
ParseMonth(S, st, year_leap) ==
    IF TwoDigits(S, st)
    THEN LET month == TwoDigitValue(S, st)
             st1   == Advance(S, [st EXCEPT !.out.month = month], 2)
         IN  IF month < 1 \/ month > 12
             THEN RangeError(S, [st EXCEPT !.out.month = month])
             ELSE IF st1.sublen = 0 THEN DateOnly(S, st1, NPY_FR_M)
             ELSE IF At(S, st1.pos) = ChMinus
             THEN (IF Advance(S, st1, 1).sublen = 0
                   THEN ParseError(S, Advance(S, st1, 1))
                   ELSE ParseDay(S, Advance(S, st1, 1), year_leap))
             ELSE ParseError(S, st1)
    ELSE ParseError(S, st)

\* while (sublen > 0 && isdigit(*substr)) { year = 10 * year + digit; ... }
RECURSIVE YearDigits(_, _)
YearDigits(S, st) ==
    IF st.sublen > 0 /\ isdigit(At(S, st.pos))
    THEN YearDigits(S, Advance(S, [st EXCEPT
            !.out.year = YMul10Add(@, At(S, st.pos) - Ch0)], 1))
    ELSE st

\* if (str[0] == '-') year = -year;
NegateYear(S, st) ==
    IF At(S, 0) = ChMinus THEN [st EXCEPT !.out.year = YNegate(@)] ELSE st

\* PARSE THE YEAR, negate it, then '-' or the end of the string
ParseYear(S, st) ==
    LET st1 == NegateYear(S, YearDigits(S, [st EXCEPT !.out.year = YZero]))
        year_leap == is_leapyear(st1.out.year)
    IN  IF st1.sublen = 0 THEN DateOnly(S, st1, NPY_FR_Y)
        ELSE IF At(S, st1.pos) = ChMinus
        THEN (IF Advance(S, st1, 1).sublen = 0
              THEN ParseError(S, Advance(S, st1, 1))
              ELSE ParseMonth(S, Advance(S, st1, 1), year_leap))
        ELSE ParseError(S, st1)

\* Leading '-' sign for negative year
LeadingSign(S, st) ==
    LET st1 == IF At(S, st.pos) = ChMinus THEN Advance(S, st, 1) ELSE st
    IN  IF st1.sublen = 0 THEN ParseError(S, st1) ELSE ParseYear(S, st1)

\* substr = str; sublen = len; skip leading whitespace
GeneralPath(S, st) ==
    LeadingSign(S, SkipSpace(S, [st EXCEPT !.pos = 0, !.scan = 1,
                                           !.sublen = ToChar(S.h, S.len)]))

\* "today": midnight of today's local date
Today(S, st) ==
    IF S.unit # -1 /\ S.unit > NPY_FR_D
    THEN PResult(-1, "TodayNeedsDays", st, -2, -1)
    ELSE LET tm  == HostUTCToLocal(S.h, S.h.now)
             st1 == [st EXCEPT !.out.year = tm.year, !.out.month = tm.month,
                               !.out.day = tm.day, !.local = 0,
                               !.bestunit = NPY_FR_D, !.clock = @ + 2]
         IN  Finish(S, st1, 1)

\* "now": the current UTC time, to the second
Now(S, st) ==
    LET r == Finish(S, [st EXCEPT !.local = 0, !.bestunit = NPY_FR_s,
                                  !.clock = @ + 1], 1)
    IN  IF r.ret = 0 THEN [r EXCEPT !.out = S.h.now] ELSE r

\* IsWord without tolower.
IsWord_CaseSensitive(S, w) == S.len = Len(w) /\ S.str = w

\* len == n && tolower(str[0]) == w[0] && ... && tolower(str[n-1]) == w[n-1]
IsWord(S, w) == S.len = Len(w) /\ Lower(S.str) = w

\* parse_iso_8601_datetime with "today" and "now" recognised before the test
\* for generic units.
parse_iso_8601_datetime_TodayFirst(s, len, u, c, h) ==
    LET S  == [str |-> s, len |-> len, unit |-> u, casting |-> c, h |-> h]
        st == [pos |-> 0, sublen |-> 0, local |-> -1, bestunit |-> -2,
               scan |-> 0, gate |-> 0, clock |-> 0,
               out |-> [ZeroDts EXCEPT !.month = 1, !.day = 1]]
    IN  IF len <= 0 \/ IsWord(S, <<110, 97, 116>>)
        THEN PResult(0, "", [st EXCEPT !.out.year = NPY_DATETIME_NAT,
                                       !.local = 0], NPY_FR_GENERIC, 1)
        ELSE IF IsWord(S, <<116, 111, 100, 97, 121>>) THEN Today(S, st)
        ELSE IF IsWord(S, <<110, 111, 119>>) THEN Now(S, st)
        ELSE IF u = NPY_FR_GENERIC
        THEN PResult(-1, "UnsupportedGenericRequest", st, -2, -1)
        ELSE GeneralPath(S, st)

parse_iso_8601_datetime(s, len, u, c, h) ==
    LET S  == [str |-> s, len |-> len, unit |-> u, casting |-> c, h |-> h]
        st == [pos |-> 0, sublen |-> 0, local |-> -1, bestunit |-> -2,
               scan |-> 0, gate |-> 0, clock |-> 0,
               out |-> [ZeroDts EXCEPT !.month = 1, !.day = 1]]
    IN  IF len <= 0 \/ IsWord(S, <<110, 97, 116>>)
        THEN PResult(0, "", [st EXCEPT !.out.year = NPY_DATETIME_NAT,
                                       !.local = 0], NPY_FR_GENERIC, 1)
        ELSE IF u = NPY_FR_GENERIC
        THEN PResult(-1, "UnsupportedGenericRequest", st, -2, -1)
        ELSE IF IsWord(S, <<116, 111, 100, 97, 121>>) THEN Today(S, st)
        ELSE IF IsWord(S, <<110, 111, 119>>) THEN Now(S, st)
        ELSE GeneralPath(S, st)

-----------------------------------------------------------------------------
(* get_datetime_iso_8601_strlen                                            *)

\* The switch's case labels in order, each with the statement under it;
\* control falls through from the matching label to the break under 'Y'.
StrlenCases ==
    << [unit |-> NPY_FR_as, add |-> 3], [unit |-> NPY_FR_fs, add |-> 3],
       [unit |-> NPY_FR_ps, add |-> 3], [unit |-> NPY_FR_ns, add |-> 3],
       [unit |-> NPY_FR_us, add |-> 3], [unit |-> NPY_FR_ms, add |-> 4],
       [unit |-> NPY_FR_s,  add |-> 3], [unit |-> NPY_FR_m,  add |-> 3],
       [unit |-> NPY_FR_h,  add |-> 3], [unit |-> NPY_FR_D,  add |-> 0],
       [unit |-> NPY_FR_W,  add |-> 3], [unit |-> NPY_FR_M,  add |-> 3],
       [unit |-> NPY_FR_Y,  add |-> 21] >>

RECURSIVE FallThrough(_, _)
FallThrough(base, i) ==
    IF i > Len(StrlenCases) THEN 0
    ELSE IF StrlenCases[i].unit = base
    THEN LET RECURSIVE Sum(_)
             Sum(j) == IF j > Len(StrlenCases) THEN 0
                       ELSE StrlenCases[j].add + Sum(j + 1)
         IN  Sum(i)
    ELSE FallThrough(base, i + 1)

\* get_datetime_iso_8601_strlen counting one byte for the zone whatever
\* 'local' is.
get_datetime_iso_8601_strlen_NoOffset(local, base) ==
    IF base = -1 THEN NPY_DATETIME_MAX_ISO8601_STRLEN
    ELSE IF base = NPY_FR_GENERIC THEN 4
    ELSE FallThrough(base, 1) + (IF base >= NPY_FR_h THEN 1 ELSE 0) + 1

get_datetime_iso_8601_strlen(local, base) ==
    IF base = -1 THEN NPY_DATETIME_MAX_ISO8601_STRLEN
    ELSE IF base = NPY_FR_GENERIC THEN 4
    ELSE FallThrough(base, 1)
         + (IF base >= NPY_FR_h THEN (IF local # 0 THEN 5 ELSE 1) ELSE 0)
         + 1

-----------------------------------------------------------------------------
(* make_iso_8601_datetime                                                  *)
(*                                                                         *)
(* F  = [dts, outlen, local, base, timezone_offset, h] after the unit and  *)
(*      time zone have been settled.                                       *)
(* fs = [buf, oob, pos, sublen]: the caller's buffer outstr[0..outlen-1],  *)
(*      the set of indices written outside it, substr - outstr, and the    *)
(*      char counter sublen.                                               *)

\* outstr[idx] = c
Poke(fs, idx, c) ==
    IF idx >= 0 /\ idx < Len(fs.buf) THEN [fs EXCEPT !.buf[idx + 1] = c]
    ELSE [fs EXCEPT !.oob = @ \cup {idx}]

FResult(ret, fs, F) ==
    [ret |-> ret, buf |-> fs.buf, oob |-> fs.oob, pos |-> fs.pos,
     base |-> F.base, local |-> F.local]

\* StringTooShort without the terminator.
StringTooShort_NoTerminator(fs, F) == FResult(-1, fs, F)

\* string_too_short: put a NULL terminator on anyway
StringTooShort(fs, F) ==
    FResult(-1, IF F.outlen > 0 THEN Poke(fs, F.outlen - 1, NUL) ELSE fs, F)

\* substr[0] = '\0'; return 0;
Terminate(fs, F) == FResult(0, Poke(fs, fs.pos, NUL), F)

\* substr[0] = c1; if (sublen <= 1) goto string_too_short; substr[1] = c2; ...
\* r = [fs, short]
RECURSIVE EmitFrom(_, _, _)
EmitFrom(r, chars, k) ==
    IF k > Len(chars) THEN r
    ELSE LET fs1 == Poke(r.fs, r.fs.pos + k - 1, chars[k])
         IN  IF fs1.sublen <= k THEN [fs |-> fs1, short |-> TRUE]
             ELSE EmitFrom([r EXCEPT !.fs = fs1], chars, k + 1)

\* One field: its characters, then substr += n; sublen -= n;
Emit(fs, chars, F) ==
    LET r == EmitFrom([fs |-> fs, short |-> FALSE], chars, 1)
    IN  IF r.short THEN r
        ELSE [r EXCEPT !.fs.pos = @ + Len(chars),
                       !.fs.sublen = ToChar(F.h, @ - Len(chars))]

Digit(v) == (v % 10) + Ch0

\* add_time_zone:
AddTimeZone(fs, F) ==
    IF F.local # 0
    THEN LET off  == IF F.timezone_offset < 0 THEN 0 - F.timezone_offset
                     ELSE F.timezone_offset
             sign == Emit(fs, <<IF F.timezone_offset < 0 THEN ChMinus
                                ELSE ChPlus>>, F)
             num  == Emit(sign.fs, <<Digit(off \div (10 * 60)), Digit(off \div 60),
                                     Digit((off % 60) \div 10), Digit(off % 60)>>, F)
         IN  IF sign.short THEN StringTooShort(sign.fs, F)
             ELSE IF num.short THEN StringTooShort(num.fs, F)
             ELSE Terminate(num.fs, F)
    ELSE LET z == Emit(fs, <<ChZ>>, F)
         IN  IF z.short THEN StringTooShort(z.fs, F) ELSE Terminate(z.fs, F)

\* The fields after the year in the order they are written, each with the
\* unit at which the output stops after it.
Fields(dts) ==
    << [unit |-> NPY_FR_M,
        chars |-> <<ChMinus, Digit(dts.month \div 10), Digit(dts.month)>>],
       [unit |-> NPY_FR_D,
        chars |-> <<ChMinus, Digit(dts.day \div 10), Digit(dts.day)>>],
       [unit |-> NPY_FR_h,
        chars |-> <<ChT, Digit(dts.hour \div 10), Digit(dts.hour)>>],
       [unit |-> NPY_FR_m,
        chars |-> <<ChColon, Digit(dts.min \div 10), Digit(dts.min)>>],
       [unit |-> NPY_FR_s,
        chars |-> <<ChColon, Digit(dts.sec \div 10), Digit(dts.sec)>>],
       [unit |-> NPY_FR_ms,
        chars |-> <<ChDot, Digit(dts.us \div 100000), Digit(dts.us \div 10000),
                    Digit(dts.us \div 1000)>>],
       [unit |-> NPY_FR_us,
        chars |-> <<Digit(dts.us \div 100), Digit(dts.us \div 10), Digit(dts.us)>>],
       [unit |-> NPY_FR_ns,
        chars |-> <<Digit(dts.ps \div 100000), Digit(dts.ps \div 10000),
                    Digit(dts.ps \div 1000)>>],
       [unit |-> NPY_FR_ps,
        chars |-> <<Digit(dts.ps \div 100), Digit(dts.ps \div 10), Digit(dts.ps)>>],
       [unit |-> NPY_FR_fs,
        chars |-> <<Digit(dts.as \div 100000), Digit(dts.as \div 10000),
                    Digit(dts.as \div 1000)>>],
       [unit |-> NPY_FR_as,
        chars |-> <<Digit(dts.as \div 100), Digit(dts.as \div 10), Digit(dts.as)>>] >>

\* MONTH ... ATTOSECOND, stopping at the unit 'base'
RECURSIVE EmitFields(_, _, _)
EmitFields(fs, F, i) ==
    IF i > Len(Fields(F.dts)) THEN AddTimeZone(fs, F)
    ELSE LET f == Fields(F.dts)[i]
             r == Emit(fs, f.chars, F)
         IN  IF r.short THEN StringTooShort(r.fs, F)
             ELSE IF F.base = f.unit
             THEN (IF f.unit < NPY_FR_h THEN Terminate(r.fs, F)
                   ELSE AddTimeZone(r.fs, F))
             ELSE EmitFields(r.fs, F, i + 1)

\* The characters of printf's "%04lld" for a year.
RECURSIVE ZeroPad(_, _)
ZeroPad(digits, width) ==
    IF Len(digits) >= width THEN digits ELSE ZeroPad(<<Ch0>> \o digits, width)

YearText(y) ==
    LET digits == [i \in 1..Len(y.mag) |-> y.mag[i] + Ch0]
    IN  IF y.neg THEN <<ChMinus>> \o ZeroPad(digits, 3) ELSE ZeroPad(digits, 4)

\* snprintf(substr, sublen, ...): at most (size_t)sublen - 1 characters and a
\* terminator; a negative sublen converts to a size no text reaches.
RECURSIVE PokeText(_, _, _, _)
PokeText(fs, text, k, n) ==
    IF k > n THEN Poke(fs, fs.pos + n, NUL)
    ELSE PokeText(Poke(fs, fs.pos + k - 1, text[k]), text, k + 1, n)

snprintf(fs, text) ==
    IF fs.sublen = 0 THEN fs
    ELSE IF fs.sublen < 0 \/ Len(text) <= fs.sublen - 1
    THEN PokeText(fs, text, 1, Len(text))
    ELSE PokeText(fs, text, 1, fs.sublen - 1)

\* EmitYear with no room kept for the terminator (tmplen > sublen).
EmitYear_NoTerminatorRoom(fs, F) ==
    LET text   == YearText(F.dts.year)
        tmplen == Len(text)
        fs1    == snprintf(fs, text)
        fs2    == [fs1 EXCEPT !.pos = @ + tmplen,
                              !.sublen = ToChar(F.h, @ - tmplen)]
    IN  IF tmplen < 0 \/ tmplen > fs1.sublen THEN StringTooShort(fs1, F)
        ELSE IF F.base = NPY_FR_Y THEN Terminate(fs2, F)
        ELSE EmitFields(fs2, F, 1)

\* YEAR, then the other fields
EmitYear(fs, F) ==
    LET text   == YearText(F.dts.year)
        tmplen == Len(text)
        fs1    == snprintf(fs, text)
        fs2    == [fs1 EXCEPT !.pos = @ + tmplen,
                              !.sublen = ToChar(F.h, @ - tmplen)]
    IN  IF tmplen < 0 \/ tmplen >= fs1.sublen THEN StringTooShort(fs1, F)
        ELSE IF F.base = NPY_FR_Y THEN Terminate(fs2, F)
        ELSE EmitFields(fs2, F, 1)

\* AutoBase without the femtosecond branch.
AutoBase_NoFemto(dts, local) ==
    IF dts.as % 1000 # 0 THEN NPY_FR_as
    ELSE IF dts.ps % 1000 # 0 THEN NPY_FR_ps
    ELSE IF dts.ps # 0 THEN NPY_FR_ns
    ELSE IF dts.us % 1000 # 0 THEN NPY_FR_us
    ELSE IF dts.us # 0 THEN NPY_FR_ms
    ELSE IF dts.sec # 0 THEN NPY_FR_s
    ELSE IF local # 0 \/ dts.min # 0 \/ dts.hour # 0 THEN NPY_FR_m
    ELSE NPY_FR_D

\* Automatically detect a good unit
AutoBase(dts, local) ==
    IF dts.as % 1000 # 0 THEN NPY_FR_as
    ELSE IF dts.as # 0 THEN NPY_FR_fs
    ELSE IF dts.ps % 1000 # 0 THEN NPY_FR_ps
    ELSE IF dts.ps # 0 THEN NPY_FR_ns
    ELSE IF dts.us % 1000 # 0 THEN NPY_FR_us
    ELSE IF dts.us # 0 THEN NPY_FR_ms
    ELSE IF dts.sec # 0 THEN NPY_FR_s
    ELSE IF local # 0 \/ dts.min # 0 \/ dts.hour # 0 THEN NPY_FR_m
    ELSE NPY_FR_D

\* Only do local time within a reasonable year range
GateLocal(dts, local, tzoffset) ==
    IF (~YGreater(dts.year, 1900) \/ ~YLess(dts.year, 10000)) /\ tzoffset = -1
    THEN 0 ELSE local

\* base == -1: detect; weeks print as days
PickBase(dts, local, base) ==
    IF base = -1 THEN AutoBase(dts, local)
    ELSE IF base = NPY_FR_W THEN NPY_FR_D
    ELSE base

\* Printed dates have no time zone
DateLocal(local, base) == IF base < NPY_FR_h THEN 0 ELSE local

\* Use the C API to convert from UTC to local time: [dts, timezone_offset]
ToLocalTime(h, dts) ==
    LET tm == HostUTCToLocal(h, [dts EXCEPT !.sec = 0])
        dts_local == [dts EXCEPT !.min = tm.min, !.hour = tm.hour,
                                 !.day = tm.day, !.month = tm.month,
                                 !.year = tm.year]
    IN  [dts |-> dts_local,
         timezone_offset |->
             (get_datetimestruct_days(dts_local) - get_datetimestruct_days(dts))
                 * 24 * 60
             + (dts_local.hour - dts.hour) * 60 + (dts_local.min - dts.min)]

\* Handle NaT, and treat a datetime with generic units as NaT
MakeNaT(fs, F) ==
    IF F.outlen < 4 THEN StringTooShort(fs, F)
    ELSE FResult(0, Poke(Poke(Poke(Poke(fs, 0, ChN), 0, Cha), 0, ChT), 0, NUL), F)

make_iso_8601_datetime(dts, outstr, outlen, local, base, tzoffset, h) ==
    LET fs == [buf |-> outstr, oob |-> {}, pos |-> 0,
               sublen |-> ToChar(h, outlen)]
        F0 == [dts |-> dts, outlen |-> outlen, local |-> local, base |-> base,
               timezone_offset |-> 0, h |-> h]
        local1 == GateLocal(dts, local, tzoffset)
        base1  == PickBase(dts, local1, base)
        local2 == DateLocal(local1, base1)
        conv   == IF local2 # 0 /\ tzoffset = -1 THEN ToLocalTime(h, dts)
                  ELSE IF local2 # 0
                  THEN [dts |-> add_minutes_to_datetimestruct(dts, tzoffset),
                        timezone_offset |-> tzoffset]
                  ELSE [dts |-> dts, timezone_offset |-> 0]
    IN  IF dts.year = NPY_DATETIME_NAT \/ base = NPY_FR_GENERIC
        THEN MakeNaT(fs, F0)
        ELSE EmitYear(fs, [F0 EXCEPT !.dts = conv.dts, !.local = local2,
                                     !.base = base1,
                                     !.timezone_offset = conv.timezone_offset])

-----------------------------------------------------------------------------
(* Inputs                                                                  *)

MaxSpaces == 1     \* longest run of blanks put around a string
MaxFraction == 19  \* most digits put after the decimal point
MaxCapacity == 45  \* largest small buffer handed to the formatter

\* Text helpers: decimal digits of n, and n as exactly two digits.
Dec(n) == [i \in 1..Len(NatMag(n)) |-> NatMag(n)[i] + Ch0]
Two(n) == <<Ch0 + (n \div 10), Ch0 + (n % 10)>>

\* The hosts: minutes east of UTC, signedness of plain char, the clock (UTC).
ClockNow == [ZeroDts EXCEPT !.year = YFromInt(2011), !.month = 6, !.day = 15,
                            !.hour = 22, !.min = 34, !.sec = 56]
Hosts == { [tz |-> 330,  charSigned |-> TRUE,  now |-> ClockNow],
           [tz |-> -300, charSigned |-> FALSE, now |-> ClockNow],
           [tz |-> 0,    charSigned |-> TRUE,  now |-> ClockNow] }

Blanks(n) == [i \in 1..n |-> ChSpace]
SpaceRuns == { Blanks(n) : n \in 0..MaxSpaces } \cup { <<ChTab>> }

SignTexts == { <<>>, <<ChMinus>> }
YearTexts == { Dec(2010), Dec(1901) }
MonthTexts == { <<ChMinus>> \o Two(3) }
DayTexts  == { <<ChMinus>> \o Two(1) \o <<ChMinus>> \o Two(1),
               <<ChMinus>> \o Two(12) \o <<ChMinus>> \o Two(31) }
TimeTexts == { <<ChT>> \o Two(10),
               <<ChSpace>> \o Two(10),
               <<ChT>> \o Two(0) \o <<ChColon>> \o Two(30),
               <<ChT>> \o Two(23) \o <<ChColon>> \o Two(59) \o <<ChColon>> \o Two(59),
               <<ChT>> \o Two(10) \o <<ChColon>> \o Two(30) \o <<ChColon>> \o Two(45)
                   \o <<ChDot, Ch0 + 5>>,
               <<ChT>> \o Two(10) \o <<ChColon>> \o Two(30) \o <<ChColon>> \o Two(45)
                   \o <<ChDot>> \o Dec(123456) }
ZoneTexts == { <<ChZ>>,
               <<ChPlus>> \o Two(5), <<ChMinus>> \o Two(5),
               <<ChPlus>> \o Two(5) \o <<ChColon>> \o Two(30),
               <<ChMinus>> \o Two(5) \o <<ChColon>> \o Two(30),
               <<ChPlus>> \o Two(5) \o Two(30) }
TrailTexts == SpaceRuns \cup { <<88>> }

\* The pieces a general (non-special) input string is assembled from.
Pieces(lead, sign, year, date, time, gap, zone, trail) ==
    [lead |-> lead, sign |-> sign, year |-> year, date |-> date,
     time |-> time, gap |-> gap, zone |-> zone, trail |-> trail]

Core(p) == p.sign \o p.year \o p.date \o p.time \o p.gap \o p.zone
Text(p) == p.lead \o Core(p) \o p.trail

GeneralInputs ==
    { Pieces(lead, sign, year, date, <<>>, <<>>, <<>>, trail) :
        lead \in SpaceRuns, sign \in SignTexts, year \in YearTexts,
        date \in {<<>>} \cup MonthTexts \cup DayTexts, trail \in TrailTexts }
    \cup
    { Pieces(lead, sign, year, date, time, <<>>, <<>>, trail) :
        lead \in SpaceRuns, sign \in SignTexts, year \in YearTexts,
        date \in DayTexts, time \in TimeTexts, trail \in TrailTexts }
    \cup
    { Pieces(lead, sign, year, date, time, gap, zone, trail) :
        lead \in SpaceRuns, sign \in SignTexts, year \in YearTexts,
        date \in DayTexts, time \in TimeTexts, gap \in {<<>>, <<ChSpace>>},
        zone \in ZoneTexts, trail \in TrailTexts }

\* Seconds with n fractional digits 1, 2, ..., 9, 0, 1, ... or n zeros and a 7.
FractionDigits(n) == [i \in 1..n |-> Ch0 + (i % 10)]
FractionTexts ==
    { <<ChDot>> \o FractionDigits(n) : n \in 0..MaxFraction }
    \cup { <<ChDot>> \o [i \in 1..n |-> IF i = n THEN Ch0 + 7 ELSE Ch0] :
             n \in 1..MaxFraction }
FractionInputs ==
    { Pieces(<<>>, <<>>, Dec(2016), <<ChMinus>> \o Two(1) \o <<ChMinus>> \o Two(1),
             <<ChT>> \o Two(12) \o <<ChColon>> \o Two(30) \o <<ChColon>> \o Two(45)
                 \o frac, <<>>, zone, <<>>) :
        frac \in FractionTexts,
        zone \in {<<>>, <<ChZ>>, <<ChPlus>> \o Two(5) \o <<ChColon>> \o Two(30)} }

\* A string given as one piece.
Word(text) == Pieces(<<>>, <<>>, text, <<>>, <<>>, <<>>, <<>>, <<>>)

\* "", "nat", "today" and "now" in several letter cases, and near misses.
NaTWords == { <<>>, <<110, 97, 116>>, <<78, 97, 84>>, <<78, 65, 84>>,
              <<110, 65, 116>> }
SpecialWords ==
    NaTWords \cup { <<116, 111, 100, 97, 121>>, <<84, 111, 68, 97, 89>>,
                    <<110, 111, 119>>, <<78, 79, 87>> }
NearWords == { <<110, 97>>, <<110, 97, 116, 116>>, <<110, 111, 119, 32>> }

\* Requested units (-1: unknown) and casting rules.
CastUnits == { -1 } \cup (NPY_FR_GENERIC..NPY_FR_as)
CastingRules == { "no", "equiv", "safe", "same_kind", "unsafe" }

\* Strings for every best unit from years to microseconds, with and without
\* a zone, a local time one second before the epoch on the host at +05:30,
\* and strings with a field out of range or a stray byte.
CastInputs ==
    { Word(w) : w \in SpecialWords \cup NearWords }
    \cup
    { Pieces(<<>>, <<>>, Dec(2010), date, <<>>, <<>>, <<>>, trail) :
        date \in {<<>>} \cup MonthTexts \cup DayTexts, trail \in {<<>>, <<88>>} }
    \cup
    { Pieces(<<>>, <<>>, Dec(2010), <<ChMinus>> \o Two(12) \o <<ChMinus>> \o Two(31),
             time, <<>>, zone, <<>>) :
        time \in TimeTexts, zone \in {<<>>, <<ChZ>>} }
    \cup
    { Pieces(<<>>, <<>>, Dec(1970), <<ChMinus>> \o Two(1) \o <<ChMinus>> \o Two(1),
             <<ChT>> \o Two(5) \o <<ChColon>> \o Two(29) \o <<ChColon>> \o Two(59),
             <<>>, <<>>, <<>>),
      Pieces(<<>>, <<>>, Dec(2010), <<ChMinus>> \o Two(13), <<>>, <<>>, <<>>, <<>>) }

\* Times with an offset: hours 00, 05, 23 and 24, minutes absent, 00, 30, 59
\* and 60 after a colon, and 30 without one; some cross a day or a year.
OffsetHours == { 0, 5, 23, 24 }
OffsetMinuteTexts == { <<>>, <<ChColon>> \o Two(0), <<ChColon>> \o Two(30),
                       <<ChColon>> \o Two(59), <<ChColon>> \o Two(60), Two(30) }
OffsetTexts == { <<sign>> \o Two(hh) \o mm :
                   sign \in {ChPlus, ChMinus}, hh \in OffsetHours,
                   mm \in OffsetMinuteTexts }
OffsetInputs ==
    { Pieces(<<>>, <<>>, Dec(2016), date, time, <<>>, zone, <<>>) :
        date \in DayTexts,
        time \in TimeTexts \cup { <<ChT>> \o Two(0) \o <<ChColon>> \o Two(0)
                                     \o <<ChColon>> \o Two(0) },
        zone \in OffsetTexts }

\* Dates and times with each two-digit field at, inside and beyond its
\* limits, in leap and common years, some moved across the end of February
\* by an offset or by the host's zone.
RangeYears == { Dec(2010), Dec(2000), Dec(1900), Dec(2016) }
RangeDates ==
    { <<ChMinus>> \o Two(m) : m \in {0, 2, 13} }
    \cup { <<ChMinus>> \o Two(m) \o <<ChMinus>> \o Two(d) :
              m \in {0, 1, 2, 4, 12, 13}, d \in {0, 1, 28, 29, 30, 31, 32} }
RangeTimes ==
    { <<ChT>> \o Two(h) : h \in {0, 23, 24} }
    \cup { <<ChT>> \o Two(h) \o <<ChColon>> \o Two(m) :
              h \in {0, 23, 24}, m \in {0, 59, 60} }
    \cup { <<ChT>> \o Two(h) \o <<ChColon>> \o Two(m) \o <<ChColon>> \o Two(sec) :
              h \in {0, 23, 24}, m \in {0, 59, 60}, sec \in {0, 59, 60} }
RangeInputs ==
    { Pieces(lead, sign, year, date, <<>>, <<>>, <<>>, <<>>) :
        lead \in {<<>>, <<ChTab>>}, sign \in SignTexts, year \in RangeYears,
        date \in RangeDates }
    \cup
    { Pieces(<<>>, <<>>, year, <<ChMinus>> \o Two(2) \o <<ChMinus>> \o Two(d),
             time, <<>>, zone, <<>>) :
        year \in {Dec(2010), Dec(2000)}, d \in {28, 29}, time \in RangeTimes,
        zone \in {<<>>, <<ChZ>>, <<ChMinus>> \o Two(5)} }

\* Values to format: years across the 64-bit range, the ends of a year, and
\* one time of day and fraction for each unit the formatter can detect.
Int64MinPlus1 == [neg |-> TRUE, mag |-> Int64MaxMag]
FormatYears == { Int64Max, Int64MinPlus1, NPY_DATETIME_NAT, YFromInt(2010),
                 YFromInt(1901), YFromInt(10000), YFromInt(-5) }
FormatDays  == { <<1, 1>>, <<12, 31>> }
\* <<hour, min, sec, us, ps, as>>
FormatTimes == { <<0, 0, 0, 0, 0, 0>>, <<0, 0, 7, 0, 0, 0>>, <<0, 30, 0, 0, 0, 0>>,
                 <<5, 0, 0, 0, 0, 0>>,
                 <<23, 59, 59, 120000, 0, 0>>, <<23, 59, 59, 123456, 0, 0>>,
                 <<23, 59, 59, 0, 789000, 0>>, <<23, 59, 59, 0, 0, 1>>,
                 <<23, 59, 59, 5, 12, 345000>>, <<0, 0, 0, 0, 1, 0>>,
                 <<0, 0, 0, 0, 0, 999000>> }
FormatValues ==
    { [year |-> y, month |-> d[1], day |-> d[2], hour |-> t[1], min |-> t[2],
       sec |-> t[3], us |-> t[4], ps |-> t[5], as |-> t[6]] :
        y \in FormatYears, d \in FormatDays, t \in FormatTimes }
\* <<local, tzoffset>>: UTC, the host's zone, and two fixed offsets
FormatZones == { <<0, -1>>, <<1, -1>>, <<1, 330>>, <<1, -300>> }
FormatBases == { -1 } \cup (NPY_FR_GENERIC..NPY_FR_as)
FormatRequests ==
    { [dts |-> v, outlen |-> 0, fill |-> 63, local |-> z[1], base |-> b,
       tzoffset |-> z[2]] :
        v \in FormatValues, z \in FormatZones, b \in FormatBases }

\* Buffers of every small capacity and of capacities around 128 and 256, for
\* a value with every field set, a 20-character year and NaT.
Capacities == (0..MaxCapacity) \cup { 127, 128, 129, 255, 256, 257 }
CapacityValues ==
    { [year |-> y, month |-> 12, day |-> 31, hour |-> 23, min |-> 59,
       sec |-> 59, us |-> 5, ps |-> 12, as |-> 345000] :
        y \in { YFromInt(2010), Int64MinPlus1, NPY_DATETIME_NAT } }
CapacityRequests ==
    { [dts |-> v, outlen |-> n, fill |-> 63, local |-> z[1], base |-> b,
       tzoffset |-> z[2]] :
        v \in CapacityValues, n \in Capacities,
        z \in { <<0, -1>>, <<1, -1>>, <<1, -300>> },
        b \in { -1, NPY_FR_GENERIC, NPY_FR_Y, NPY_FR_M, NPY_FR_D, NPY_FR_h,
                NPY_FR_m, NPY_FR_s, NPY_FR_ms, NPY_FR_as } }

\* Strings and buffers whose length does not fit a char: dates and times
\* after 123, 124, 252 and 256 blanks, and more room than the text needs.
WideLeads == { Blanks(n) : n \in {0, 123, 124, 252, 256} }
WideInputs ==
    { Pieces(lead, <<>>, year, date, <<>>, <<>>, <<>>, <<>>) :
        lead \in WideLeads, year \in YearTexts,
        date \in {<<>>} \cup MonthTexts \cup DayTexts }
    \cup
    { Pieces(lead, <<>>, year, date, <<ChT>> \o Two(10), <<>>, <<ChZ>>, <<>>) :
        lead \in WideLeads, year \in YearTexts, date \in DayTexts }
WideRequests ==
    { [dts |-> v, outlen |-> n, fill |-> 63, local |-> z[1], base |-> b,
       tzoffset |-> z[2]] :
        v \in CapacityValues \ { [year |-> NPY_DATETIME_NAT, month |-> 12,
                day |-> 31, hour |-> 23, min |-> 59, sec |-> 59, us |-> 5,
                ps |-> 12, as |-> 345000] },
        n \in { 64, 127, 128, 129, 255, 256, 257, 300 },
        z \in { <<0, -1>>, <<1, -300>> },
        b \in { NPY_FR_Y, NPY_FR_D, NPY_FR_as } }

NoPieces == Pieces(<<>>, <<>>, <<>>, <<>>, <<>>, <<>>, <<>>, <<>>)
NoParse  == [ret |-> 1]
NoFormat == [ret |-> 1]
NoRequest == [dts |-> ZeroDts, outlen |-> 0, fill |-> 0, local |-> 0,
              base |-> -1, tzoffset |-> -1]

-----------------------------------------------------------------------------
(* The calls                                                               *)

\* parse_iso_8601_datetime(str, len, unit, casting, &out, &local, &bestunit,
\*                         &special)
ParseCall ==
    /\ pc = "parse"
    /\ pres' = parse_iso_8601_datetime(Text(str), Len(Text(str)), unit, casting,
                                       host)
    /\ pc' = "request"
    /\ UNCHANGED <<host, str, unit, casting, freq, fres, pres2>>

\* The caller turns a successful parse into a request to format the value
\* with local = out_local and base = out_bestunit, in a buffer of the length
\* get_datetime_iso_8601_strlen gives.  An out_local the parser never
\* assigned is whatever the caller's variable held.
RequestCall ==
    /\ pc = "request"
    /\ pres.ret = 0
    /\ \E l \in (IF pres.local = -1 THEN {0, 1} ELSE {pres.local}) :
          freq' = [dts |-> pres.out, local |-> l, base |-> pres.bestunit,
                   tzoffset |-> -1, fill |-> 63,
                   outlen |-> get_datetime_iso_8601_strlen(l, pres.bestunit)]
    /\ pc' = "format"
    /\ UNCHANGED <<host, str, unit, casting, pres, fres, pres2>>

\* outlen = get_datetime_iso_8601_strlen(local, base)
SizeCall ==
    /\ pc = "size"
    /\ freq' = [freq EXCEPT !.outlen =
                    get_datetime_iso_8601_strlen(freq.local, freq.base)]
    /\ pc' = "format"
    /\ UNCHANGED <<host, str, unit, casting, pres, fres, pres2>>

\* make_iso_8601_datetime(&dts, outstr, outlen, local, base, tzoffset)
FormatCall ==
    /\ pc = "format"
    /\ fres' = make_iso_8601_datetime(freq.dts,
                   [i \in 1..freq.outlen |-> freq.fill], freq.outlen,
                   freq.local, freq.base, freq.tzoffset, host)
    /\ pc' = "reparse"
    /\ UNCHANGED <<host, str, unit, casting, pres, freq, pres2>>

\* The C string in a buffer: the bytes before the first NUL.
RECURSIVE CString(_, _)
CString(buf, i) ==
    IF i > Len(buf) \/ buf[i] = NUL THEN <<>>
    ELSE <<buf[i]>> \o CString(buf, i + 1)

\* The formatter's text is parsed again.
ReparseCall ==
    /\ pc = "reparse"
    /\ fres.ret = 0
    /\ LET text == CString(fres.buf, 1)
       IN  pres2' = parse_iso_8601_datetime(text, Len(text), unit, casting, host)
    /\ pc' = "done"
    /\ UNCHANGED <<host, str, unit, casting, pres, freq, fres>>

Start(inputs) ==
    /\ host \in Hosts
    /\ pc = "parse"
    /\ str \in inputs
    /\ unit = -1
    /\ casting = "same_kind"
    /\ pres = NoParse
    /\ freq = NoRequest
    /\ fres = NoFormat
    /\ pres2 = NoParse

Init == Start(GeneralInputs)

\* The same scenario with the unit and the casting rule of the call varied.
InitCast ==
    /\ host \in Hosts
    /\ pc = "parse"
    /\ str \in CastInputs
    /\ unit \in CastUnits
    /\ casting \in CastingRules
    /\ pres = NoParse
    /\ freq = NoRequest
    /\ fres = NoFormat
    /\ pres2 = NoParse

Next == ParseCall \/ RequestCall \/ FormatCall \/ ReparseCall

Spec == Init /\ [][Next]_vars

SpecCast == InitCast /\ [][Next]_vars

InitOffset == Start(OffsetInputs)

SpecOffset == InitOffset /\ [][Next]_vars

InitRange == Start(RangeInputs)

SpecRange == InitRange /\ [][Next]_vars

InitFraction == Start(FractionInputs)

SpecFraction == InitFraction /\ [][Next]_vars

InitFormat ==
    /\ host \in Hosts
    /\ pc = "size"
    /\ str = NoPieces
    /\ unit = -1
    /\ casting = "same_kind"
    /\ pres = NoParse
    /\ freq \in FormatRequests
    /\ fres = NoFormat
    /\ pres2 = NoParse

NextFormat == SizeCall \/ FormatCall \/ ReparseCall

\* The formatter called with a buffer of the caller's choice.
InitCapacity ==
    /\ host \in Hosts
    /\ pc = "format"
    /\ str = NoPieces
    /\ unit = -1
    /\ casting = "same_kind"
    /\ pres = NoParse
    /\ freq \in CapacityRequests
    /\ fres = NoFormat
    /\ pres2 = NoParse

NextCapacity == FormatCall \/ ReparseCall

SpecCapacity == InitCapacity /\ [][NextCapacity]_vars

\* The parser called with a long string, or the formatter with a large buffer.
InitWide ==
    \/ Start(WideInputs)
    \/ /\ host \in Hosts
       /\ pc = "format"
       /\ str = NoPieces
       /\ unit = -1
       /\ casting = "same_kind"
       /\ pres = NoParse
       /\ freq \in WideRequests
       /\ fres = NoFormat
       /\ pres2 = NoParse

SpecWide == InitWide /\ [][Next]_vars

SpecFormat == InitFormat /\ [][NextFormat]_vars

-----------------------------------------------------------------------------
(* Properties of the formatter (SpecFormat)                                *)

Formatted == pc \in {"reparse", "done"}
IsNaTRequest == freq.dts.year = NPY_DATETIME_NAT \/ freq.base = NPY_FR_GENERIC

\* C1: a NaT value or a generic unit, with room for four bytes, formats
\* successfully and leaves 'N', 'a', 'T' and the terminator in the buffer.
C1_NaTText ==
    (Formatted /\ IsNaTRequest /\ freq.outlen >= 4)
        => /\ fres.ret = 0
           /\ SubSeq(fres.buf, 1, 4) = <<ChN, Cha, ChT, NUL>>

\* C2: a non-NaT value of any 64-bit year, formatted at a concrete unit
\* (weeks included) into a buffer of the length the calculator gives for the
\* same local flag and unit, never comes back too short: the call succeeds,
\* nothing is written outside the buffer, and the text with its terminator
\* takes no more bytes than the calculated length.
C2_LengthSuffices ==
    (Formatted /\ ~IsNaTRequest /\ freq.base # -1
       /\ freq.outlen = get_datetime_iso_8601_strlen(freq.local, freq.base))
        => /\ fres.ret = 0
           /\ fres.oob = {}
           /\ fres.pos + 1 <= get_datetime_iso_8601_strlen(freq.local, freq.base)
           /\ fres.buf[fres.pos + 1] = NUL
           /\ Len(CString(fres.buf, 1)) = fres.pos

\* A 20-character year printed to attoseconds with a zone offset.
C2_Witness ==
    /\ Formatted /\ fres.ret = 0
    /\ freq.dts.year = Int64MinPlus1 /\ freq.base = NPY_FR_as
    /\ freq.local = 1 /\ freq.tzoffset = 330
    /\ freq.outlen = get_datetime_iso_8601_strlen(1, NPY_FR_as)
    /\ fres.pos = 59

\* The ordered table of the unit detection, on the value's fields.
C10_TableUnit(dts, local) ==
    IF dts.as % 1000 # 0 THEN NPY_FR_as
    ELSE IF dts.as # 0 THEN NPY_FR_fs
    ELSE IF dts.ps % 1000 # 0 THEN NPY_FR_ps
    ELSE IF dts.ps # 0 THEN NPY_FR_ns
    ELSE IF dts.us % 1000 # 0 THEN NPY_FR_us
    ELSE IF dts.us # 0 THEN NPY_FR_ms
    ELSE IF dts.sec # 0 THEN NPY_FR_s
    ELSE IF local \/ dts.min # 0 \/ dts.hour # 0 THEN NPY_FR_m
    ELSE NPY_FR_D

\* Local output was asked for and survives the year-range gate.
C10_GatedLocal ==
    /\ freq.local # 0
    /\ \/ freq.tzoffset # -1
       \/ YGreater(freq.dts.year, 1900) /\ YLess(freq.dts.year, 10000)

\* C10: with no unit given the formatter prints at the unit of the ordered
\* table (its text is the text of the same call with that unit asked for),
\* and no field of the value is lost: the text parsed again is the value.
C10_AutoUnit ==
    (Formatted /\ ~IsNaTRequest /\ freq.base = -1)
        => /\ fres.ret = 0
           /\ fres.buf = make_iso_8601_datetime(freq.dts,
                             [i \in 1..freq.outlen |-> freq.fill], freq.outlen,
                             freq.local, C10_TableUnit(freq.dts, C10_GatedLocal),
                             freq.tzoffset, host).buf
           /\ (pc = "done" /\ YSmall(freq.dts.year))
                 => (pres2.ret = 0 /\ pres2.out = freq.dts)

\* A value with femtoseconds, printed in the host's zone and parsed again.
C10_Witness ==
    /\ pc = "done" /\ freq.base = -1 /\ fres.ret = 0
    /\ freq.dts.as = 999000 /\ freq.local = 1 /\ freq.tzoffset = -1
    /\ host.tz = 330 /\ fres.base = NPY_FR_fs /\ fres.local = 1
    /\ pres2.ret = 0 /\ pres2.out = freq.dts

-----------------------------------------------------------------------------
(* Properties of the parser (Spec, SpecFraction)                           *)

Parsed == pc # "parse"

\* The parse of a text on this host with the call's unit and casting rule.
ParseOf(text) == parse_iso_8601_datetime(text, Len(text), unit, casting, host)

\* Two parses agree: both succeed with the same value, unit and locality.
SameParse(a, b) ==
    /\ a.ret = 0 /\ b.ret = 0
    /\ a.out = b.out /\ a.bestunit = b.bestunit /\ a.local = b.local

\* C3: a parsed value, formatted with local = isLocal and unit = bestUnit in
\* a buffer of the calculated length and parsed again, is the same instant.
C3_RoundTrip ==
    /\ (pc = "reparse" /\ pres.ret = 0) => fres.ret = 0
    /\ (pc = "done" /\ pres.ret = 0)
          => (pres2.ret = 0 /\ pres2.out = pres.out)

\* C4: blanks before or after a string that parses leave the outcome as it is.
C4_Whitespace ==
    (Parsed /\ str.trail \in SpaceRuns /\ (str.lead = <<>> \/ str.trail = <<>>)
       /\ ParseOf(Core(str)).ret = 0)
        => SameParse(pres, ParseOf(Core(str)))

\* The fields as written in the text: its date and time read as UTC.
C5_Written == ParseOf(str.lead \o str.sign \o str.year \o str.date \o str.time
                      \o <<ChZ>>).out
\* C5: a successful parse of a string with a time assigns isLocal: 1 when the
\* text has neither 'Z' nor an offset (the fields then being the written
\* fields taken from local time to UTC when 1900 < year < 10000), else 0.
C5_LocalAssigned ==
    (Parsed /\ pres.ret = 0 /\ pres.bestunit >= NPY_FR_h)
        => /\ pres.local = (IF str.zone = <<>> THEN 1 ELSE 0)
           /\ (str.zone = <<>> /\ YGreater(C5_Written.year, 1900)
                 /\ YLess(C5_Written.year, 10000))
                 => pres.out = HostLocalToUTC(host, C5_Written).dts

\* The zone designator is 'Z', +HH, -HH, +HH:MM or -HH:MM.
C6_ZoneForm ==
    \/ str.zone = <<ChZ>>
    \/ Len(str.zone) = 3
    \/ Len(str.zone) = 6 /\ str.zone[4] = ChColon
\* The parse of the same string without what follows the zone designator.
C6_NoTrail == ParseOf(str.lead \o Core(str))
\* C6: after 'Z', +HH, -HH, +HH:MM or -HH:MM, blanks change nothing and any
\* other trailing byte is a parse error.
C6_AfterZone ==
    (Parsed /\ C6_ZoneForm /\ C6_NoTrail.ret = 0)
        => IF str.trail \in SpaceRuns THEN SameParse(pres, C6_NoTrail)
           ELSE pres.ret = -1 /\ pres.err = "MalformedInput"

\* The parse of the same string without the space before the zone.
C7_NoGap == ParseOf(str.lead \o str.sign \o str.year \o str.date \o str.time
                    \o str.zone \o str.trail)
\* C7: one space between the last time field and the zone designator is
\* tolerated: the parse is the parse of the string without it.
C7_SpaceBeforeZone ==
    (Parsed /\ str.gap = <<ChSpace>> /\ str.zone # <<>> /\ C7_NoGap.ret = 0)
        => SameParse(pres, C7_NoGap)

\* C8: the year of a parsed date is the value of the year digits, negated
\* exactly when a '-' stands before them.
C8_SignedYear ==
    (Parsed /\ pres.ret = 0 /\ pres.bestunit < NPY_FR_h)
        => pres.out.year = [neg |-> str.sign = <<ChMinus>>,
                            mag |-> [i \in 1..Len(str.year) |-> str.year[i] - Ch0]]

\* The digits after the decimal point, the k-th of them after padding with
\* zeros, the g-th group of six, and the unit for n digits.
C9_Digits == SubSeq(str.time, 11, Len(str.time))
C9_Padded(k) == IF k <= Len(C9_Digits) THEN C9_Digits[k] - Ch0 ELSE 0
C9_Group(g) ==
    100000 * C9_Padded(6 * g - 5) + 10000 * C9_Padded(6 * g - 4)
    + 1000 * C9_Padded(6 * g - 3) + 100 * C9_Padded(6 * g - 2)
    + 10 * C9_Padded(6 * g - 1) + C9_Padded(6 * g)
C9_Unit(n) == NPY_FR_ms + ((n - 1) \div 3)
\* C9: n digits after the seconds' decimal point, 1 <= n <= 18, give the unit
\* ms, us, ns, ps, fs, as for n up to 3, 6, 9, 12, 15, 18, and the three
\* sub-second fields are the digits padded with zeros to 18 and cut in three
\* groups of six; a 19th digit is a parse error.
C9_Fraction ==
    (Parsed /\ Len(C9_Digits) >= 1)
        => IF Len(C9_Digits) <= 18
           THEN /\ pres.ret = 0
                /\ pres.bestunit = C9_Unit(Len(C9_Digits))
                /\ pres.out.us = C9_Group(1)
                /\ pres.out.ps = C9_Group(2)
                /\ pres.out.as = C9_Group(3)
           ELSE pres.ret = -1 /\ pres.err = "MalformedInput"

\* Sixteen digits: attoseconds, the last group padded.
C9_Witness ==
    /\ Parsed /\ Len(C9_Digits) = 16 /\ pres.ret = 0
    /\ pres.bestunit = NPY_FR_as
    /\ pres.out.us = 123456 /\ pres.out.ps = 789012 /\ pres.out.as = 345600

-----------------------------------------------------------------------------
(* Properties of the special values and the casting rule (SpecCast)        *)

\* The input is the empty string or "nat" in some letter case.
IsNaTText == Lower(Text(str)) \in { <<>>, <<110, 97, 116>> }
\* The input is one of the special values.
IsSpecialText ==
    IsNaTText \/ Lower(Text(str)) \in { <<116, 111, 100, 97, 121>>, <<110, 111, 119>> }

\* The check of the casting rule decided the outcome: it ran once, on the
\* best unit the string has by itself, and the parse failed with
\* DisallowedUnitCast exactly when a unit was asked for and the table refuses.
C11_Decided ==
    LET refused == unit # -1
                   /\ ~can_cast_datetime64_units(pres.bestunit, unit, casting)
    IN  /\ pres.gate = 1
        /\ pres.bestunit = parse_iso_8601_datetime(Text(str), Len(Text(str)), -1,
                                                   casting, host).bestunit
        /\ IF refused THEN pres.ret = -1 /\ pres.err = "DisallowedUnitCast"
           ELSE pres.ret = 0

\* C11 as stated: every parse of a string that is no special value which is
\* scanned without a parse error or a range error checks the casting rule
\* once and fails with DisallowedUnitCast exactly when a unit was asked for
\* and the table refuses.
C11_CastingGate ==
    (Parsed /\ ~IsSpecialText /\ pres.scan = 1
       /\ pres.err \notin {"MalformedInput", "FieldOutOfRange"})
        => C11_Decided

\* C11 amended: the same for every such parse that is scanned without a parse
\* error, a range error or a failure of the C library's time conversion.
C11_CastingGateReached ==
    (Parsed /\ ~IsSpecialText /\ pres.scan = 1
       /\ pres.err \notin {"MalformedInput", "FieldOutOfRange",
                            "ClockServiceFailure"})
        => C11_Decided

\* A time to the hour asked for as days under the rule "safe" is refused.
C11_Witness ==
    /\ Parsed /\ ~IsSpecialText /\ pres.gate = 1
    /\ pres.bestunit = NPY_FR_h /\ unit = NPY_FR_D /\ casting = "safe"
    /\ pres.ret = -1 /\ pres.err = "DisallowedUnitCast"

C13_GenericRequest ==
    (Parsed /\ unit = NPY_FR_GENERIC /\ ~IsNaTText)
        => /\ pres.ret = -1
           /\ pres.err = "UnsupportedGenericRequest"
           /\ pres.scan = 0 /\ pres.clock = 0 /\ pres.gate = 0

\* "ToDaY" with generic units under the rule "unsafe".
C13_Witness ==
    /\ Parsed /\ unit = NPY_FR_GENERIC /\ casting = "unsafe"
    /\ Text(str) = <<84, 111, 68, 97, 89>>
    /\ pres.err = "UnsupportedGenericRequest"

-----------------------------------------------------------------------------
(* Properties of the explicit offset (SpecOffset)                          *)

\* The offset written in the string: its sign, hours and minutes.
C14_Sign == IF str.zone[1] = ChMinus THEN -1 ELSE 1
C14_Hour == 10 * (str.zone[2] - Ch0) + (str.zone[3] - Ch0)
C14_Minute ==
    IF Len(str.zone) = 3 THEN 0
    ELSE 10 * (str.zone[Len(str.zone) - 1] - Ch0) + (str.zone[Len(str.zone)] - Ch0)
\* The parse of the same string with 'Z' in place of the offset.
C14_AsUTC == ParseOf(str.lead \o str.sign \o str.year \o str.date \o str.time
                     \o <<ChZ>>)
\* A value's minute on the time line, and its being a calendar time.
C14_MinuteOf(dts) ==
    (get_datetimestruct_days(dts) * 24 + dts.hour) * 60 + dts.min
C14_Calendar(dts) ==
    /\ dts.month \in 1..12
    /\ dts.day \in 1..days_per_month_table(is_leapyear(dts.year), dts.month)
    /\ dts.hour \in 0..23 /\ dts.min \in 0..59

\* C14: a string ending in +HH, -HH, +HH:MM or -HH:MM parses, when HH <= 23
\* and MM <= 59, to the value of the same string with 'Z' for the offset
\* moved back by 60*HH+MM minutes for '+' and forward for '-', with local 0
\* and the same best unit and seconds; with HH > 23 or MM > 59 it fails.
C14_OffsetSubtracted ==
    (Parsed /\ Len(str.zone) \in {3, 6} /\ C14_AsUTC.ret = 0)
        => IF C14_Hour <= 23 /\ C14_Minute <= 59
           THEN /\ pres.ret = 0
                /\ pres.local = 0
                /\ pres.bestunit = C14_AsUTC.bestunit
                /\ C14_Calendar(pres.out)
                /\ C14_MinuteOf(pres.out) = C14_MinuteOf(C14_AsUTC.out)
                       - C14_Sign * (60 * C14_Hour + C14_Minute)
                /\ pres.out.sec = C14_AsUTC.out.sec
                /\ pres.out.us = C14_AsUTC.out.us
                /\ pres.out.ps = C14_AsUTC.out.ps
                /\ pres.out.as = C14_AsUTC.out.as
           ELSE pres.ret = -1 /\ pres.err = "FieldOutOfRange"

\* "2016-01-01T00:00:00+05:30" is 2015-12-31T18:30:00.
C14_Witness ==
    /\ Parsed /\ pres.ret = 0 /\ pres.local = 0
    /\ str.date = <<ChMinus>> \o Two(1) \o <<ChMinus>> \o Two(1)
    /\ str.time = <<ChT>> \o Two(0) \o <<ChColon>> \o Two(0) \o <<ChColon>> \o Two(0)
    /\ str.zone = <<ChPlus>> \o Two(5) \o <<ChColon>> \o Two(30)
    /\ pres.out = [ZeroDts EXCEPT !.year = YFromInt(2015), !.month = 12,
                                  !.day = 31, !.hour = 18, !.min = 30]

-----------------------------------------------------------------------------
(* Properties of the formatter's buffer (SpecCapacity)                     *)

\* C15: when the formatter fails on a buffer of capacity > 0, the buffer
\* holds a terminator at an index <= capacity - 1 and none was written
\* beyond it: what is left is a terminated string within the capacity.
C15_Terminated ==
    (Formatted /\ fres.ret = -1 /\ freq.outlen > 0)
        => /\ Len(fres.buf) = freq.outlen
           /\ \E i \in 1..freq.outlen : fres.buf[i] = NUL
           /\ fres.oob = {}

\* A buffer of 20 bytes filled to its last byte before the failure.
C15_Witness ==
    /\ Formatted /\ fres.ret = -1 /\ freq.outlen = 20
    /\ freq.dts.year = YFromInt(2010) /\ freq.base = NPY_FR_as
    /\ fres.buf[1] = Ch0 + 2 /\ fres.buf[19] # freq.fill
    /\ fres.buf[20] = NUL

\* C16: whatever the value, unit, local flag and capacity, the formatter
\* writes no byte at an index >= capacity (nor below 0).
C16_InBounds == Formatted => fres.oob = {}

\* A buffer one byte short of the text and its terminator: the last byte of
\* the buffer is written, the call fails, and nothing lands outside.
C16_Witness ==
    /\ Formatted /\ fres.ret = -1 /\ fres.oob = {}
    /\ freq.dts.year = YFromInt(2010) /\ freq.base = NPY_FR_as
    /\ freq.local = 1 /\ freq.tzoffset = -300
    /\ freq.outlen = 43 /\ fres.pos = 39

-----------------------------------------------------------------------------
(* Properties of the field ranges (SpecRange)                              *)

\* The k-th two-digit field written in a piece of the string (0: absent).
C17_Has(piece, k) == Len(piece) >= 3 * k
C17_Field(piece, k) ==
    10 * (piece[3 * k - 1] - Ch0) + (piece[3 * k] - Ch0)
\* Some field written in the string is outside its range; the length of the
\* month is that of the year the parser has assembled.
C17_OutOfRange ==
    \/ C17_Has(str.date, 1) /\ C17_Field(str.date, 1) \notin 1..12
    \/ /\ C17_Has(str.date, 2) /\ C17_Field(str.date, 1) \in 1..12
       /\ C17_Field(str.date, 2) \notin
              1..days_per_month_table(is_leapyear(pres.out.year),
                                      C17_Field(str.date, 1))
    \/ C17_Has(str.time, 1) /\ C17_Field(str.time, 1) \notin 0..23
    \/ C17_Has(str.time, 2) /\ C17_Field(str.time, 2) \notin 0..59
    \/ C17_Has(str.time, 3) /\ C17_Field(str.time, 3) \notin 0..59

\* C17: a successful parse of a date or time returns month 1..12, a day of
\* that month in the year returned, hour 0..23, minute and second 0..59, and
\* a string with a two-digit field outside its range fails with
\* FieldOutOfRange; a string with every field in range parses.
C17_FieldRanges ==
    Parsed
        => /\ pres.ret = 0
                => /\ pres.special = 0
                   /\ pres.out.month \in 1..12
                   /\ pres.out.day \in
                          1..days_per_month_table(is_leapyear(pres.out.year),
                                                  pres.out.month)
                   /\ pres.out.hour \in 0..23
                   /\ pres.out.min \in 0..59
                   /\ pres.out.sec \in 0..59
           /\ IF C17_OutOfRange
              THEN pres.ret = -1 /\ pres.err = "FieldOutOfRange"
              ELSE pres.ret = 0

\* "2000-02-29" parses: 2000 is a leap year.
C17_Witness ==
    /\ Parsed /\ pres.ret = 0
    /\ Text(str) = Dec(2000) \o <<ChMinus>> \o Two(2) \o <<ChMinus>> \o Two(29)
    /\ pres.out.year = YFromInt(2000) /\ pres.out.month = 2
    /\ pres.out.day = 29

-----------------------------------------------------------------------------
(* Properties of the length counters (SpecWide)                            *)

\* C18: the counters count what is left of the string and of the buffer
\* whatever their size: a date or time after any number of blanks parses as
\* it does without them, and a value formatted in a buffer with at least the
\* calculated length succeeds with the text it has in a buffer of exactly
\* that length.
C18_NoWrap ==
    /\ (Parsed /\ str # NoPieces /\ ParseOf(Core(str)).ret = 0)
          => SameParse(pres, ParseOf(Core(str)))
    /\ (Formatted /\ freq.base # -1
          /\ freq.outlen >= get_datetime_iso_8601_strlen(freq.local, freq.base))
          => LET n == get_datetime_iso_8601_strlen(freq.local, freq.base)
                 exact == make_iso_8601_datetime(freq.dts,
                              [i \in 1..n |-> freq.fill], n, freq.local,
                              freq.base, freq.tzoffset, host)
             IN  /\ fres.ret = 0
                 /\ fres.pos = exact.pos
                 /\ SubSeq(fres.buf, 1, fres.pos + 1)
                        = SubSeq(exact.buf, 1, exact.pos + 1)

=============================================================================
